---------------------------- MODULE Spec2Model ----------------------------
(* A model of garmin-api-wrapper/app.py: the process-wide session cache     *)
(* (api, last_init_time), init_api, and the five Flask request handlers,    *)
(* run by request threads that interleave at every access to the shared     *)
(* session and at every blocking call (login, time.sleep).                  *)
(*                                                                          *)
(* Time.  The program reads the clock in two places only: line 27 compares  *)
(* time.time() - last_init_time with init_retry_interval, and time.sleep    *)
(* returns after its argument has passed.  The model therefore keeps the    *)
(* two clocks the program can observe instead of absolute times: `elapsed`, *)
(* the seconds since line 34 last set last_init_time (it stops counting at  *)
(* init_retry_interval, beyond which line 27 cannot tell values apart), and *)
(* `sleep_left`, the seconds a sleeping thread still has to wait.           *)
EXTENDS Integers, Sequences, FiniteSets, TLC

(***************************************************************************)
(* Bounds of the model and constants of the program                        *)
(***************************************************************************)
MaxRequests == 2              \* requests started in one behaviour

init_retry_interval == 60     \* app.py:18
MaxAttempts == 3              \* app.py:107, range(3)

Procs == {1, 2}               \* request threads the framework runs at once
SeqProcs == {1}               \* one thread: requests served one after another

None == 0                     \* Python's None for the client handle
TickSteps == {init_retry_interval - 1, init_retry_interval}   \* seconds that pass in one step

NoParam == "<absent>"         \* request.args.get('date') -> None
DateInputs == {NoParam, "", "2024-05-01"}
ActivityIds == {"a1", "a2"}   \* <activity_id> of /activities/<activity_id>
DownloadIds == {"a1"}         \* <activity_id> of /activities/<activity_id>/download
DefaultFormat == "fit"        \* app.py:103
Versions == {1, 2}            \* the upstream may answer differently each call
Messages == {"timeout", "403 forbidden"}    \* str(e) of an upstream exception
NoData == "<None>"            \* file_data = None
FileContents == {"", "FITDATA"}             \* bytes an upstream download returns

VARIABLES
    api,              \* global api: None or the cached client
    elapsed,          \* time.time() - last_init_time, up to init_retry_interval
    since_attempt,    \* history, kept until a session is cached: seconds since
                      \* login() was last called, up to init_retry_interval
    clients,          \* every Garmin(...) constructed so far: its login state
    pc,               \* where each request thread is
    req,              \* the request a thread is serving
    local,            \* the handler's local `api` (init_api's return value)
    new_api,          \* init_api's local new_api
    attempt,          \* download_activity's loop variable
    sleep_left,       \* what is left of a thread's time.sleep
    trace,            \* history: upstream calls and sleeps of the request in hand
    sent,             \* the response the last step sent, with its request and history
    started           \* history: requests started

vars == <<api, elapsed, since_attempt, clients, pc, req, local, new_api, attempt,
          sleep_left, trace, sent, started>>

session == <<api, elapsed>>
frame == <<pc, req, local, new_api, attempt, sleep_left, trace>>

(***************************************************************************)
(* Values                                                                  *)
(***************************************************************************)
NoObj == [of |-> "", key |-> "", ver |-> 0]
UpstreamObj(op, key, v) == [of |-> op, key |-> key, ver |-> v]

NoResp == [code |-> 0, mimetype |-> "", error |-> "", status |-> "",
           auth_status |-> "", obj |-> NoObj, data |-> NoData, name |-> <<>>]

\* A variant of jsonify that answers with a normalised copy of the payload
jsonifyNormalised(obj) == [NoResp EXCEPT !.code = 200, !.mimetype = "application/json",
                                         !.obj = [obj EXCEPT !.ver = 1]]

\* jsonify(payload): a 200 JSON response whose body is the payload itself
jsonify(obj) == [NoResp EXCEPT !.code = 200, !.mimetype = "application/json",
                               !.obj = obj]

\* jsonify({"error": msg}), code
jsonify_error(msg, code) == [NoResp EXCEPT !.code = code,
                               !.mimetype = "application/json", !.error = msg]

\* jsonify({"status": s, "auth_status": a, "service": "garmin-api"}), code
jsonify_health(s, a, code) == [NoResp EXCEPT !.code = code,
                               !.mimetype = "application/json",
                               !.status = s, !.auth_status = a]

\* send_file(io.BytesIO(data), as_attachment, download_name)
send_file(data, id, fmt) == [NoResp EXCEPT !.code = 200,
                               !.mimetype = "application/octet-stream",
                               !.data = data,
                               !.name = <<"activity_", id, ".", fmt>>]

MissingDate == jsonify_error(
    "A 'date' query parameter is required in YYYY-MM-DD format.", 400)
ConnectError == jsonify_error("Failed to connect to Garmin API", 500)
DownloadExhausted == jsonify_error("Activity download failed after 3 attempts", 500)

NoReq == [ep |-> "", arg |-> ""]
NoSent == [proc |-> 0, req |-> NoReq, resp |-> NoResp, trace |-> <<>>,
           handle |-> None]

\* The history of a request: its upstream calls and its sleeps, in order.
\* out: how the call ended; data: the bytes it returned or the message it
\* raised with; obj: the object it returned; w: the seconds slept; pending: the
\* clients whose login call was still in progress when this login call began.
NoEvent == [kind |-> "", h |-> None, op |-> "", arg |-> "", out |-> "",
            data |-> NoData, obj |-> NoObj, w |-> 0, pending |-> {}]
LoginEvent(h, others) == [NoEvent EXCEPT !.kind = "login", !.h = h,
                                         !.op = "login", !.pending = others]
CallEvent(h, op, arg, out, data, obj) ==
    [NoEvent EXCEPT !.kind = "call", !.h = h, !.op = op, !.arg = arg,
                    !.out = out, !.data = data, !.obj = obj]
SleepEvent(w) == [NoEvent EXCEPT !.kind = "sleep", !.op = "sleep", !.w = w]

\* A variant of line 112 without the backoff
Pow2Flat(n) == 1

RECURSIVE Pow2(_)
Pow2(n) == IF n = 0 THEN 1 ELSE 2 * Pow2(n - 1)      \* 2 ** attempt
Max(a, b) == IF a >= b THEN a ELSE b
Min(a, b) == IF a <= b THEN a ELSE b

IsLogin(e) == e.kind = "login"
IsCall(e) == e.kind = "call"
IsSleep(e) == e.kind = "sleep"

(***************************************************************************)
(* Initial state: the module has just been imported                        *)
(***************************************************************************)
Init ==
    /\ api = None
    /\ elapsed = init_retry_interval      \* last_init_time = 0: long ago
    /\ since_attempt = init_retry_interval
    /\ clients = <<>>
    /\ pc = [p \in Procs |-> "idle"]
    /\ req = [p \in Procs |-> NoReq]
    /\ local = [p \in Procs |-> None]
    /\ new_api = [p \in Procs |-> None]
    /\ attempt = [p \in Procs |-> 0]
    /\ sleep_left = [p \in Procs |-> 0]
    /\ trace = [p \in Procs |-> <<>>]
    /\ sent = NoSent
    /\ started = 0

(***************************************************************************)
(* Entering and leaving a handler                                          *)
(***************************************************************************)
\* A request goes to the first idle thread.
CanStart(p) ==
    /\ pc[p] = "idle"
    /\ \A q \in Procs : q < p => pc[q] # "idle"
    /\ started < MaxRequests

\* The framework hands request r to thread p, whose next step is at `at`.
Enter(p, r, at) ==
    /\ pc' = [pc EXCEPT ![p] = at]
    /\ req' = [req EXCEPT ![p] = r]
    /\ started' = started + 1
    /\ UNCHANGED <<local, new_api, attempt, sleep_left, trace>> /\ sent' = NoSent

\* The handler has returned: its frame is gone and the thread is idle again.
Leave(p) ==
    /\ pc' = [pc EXCEPT ![p] = "idle"]
    /\ req' = [req EXCEPT ![p] = NoReq]
    /\ local' = [local EXCEPT ![p] = None]
    /\ new_api' = [new_api EXCEPT ![p] = None]
    /\ attempt' = [attempt EXCEPT ![p] = 0]
    /\ trace' = [trace EXCEPT ![p] = <<>>]

\* The handler returns response r, which is sent.
\* rq, tr: the request and the request's history including this step.
Respond(p, rq, r, tr) ==
    /\ sent' = [proc |-> p, req |-> rq, resp |-> r, trace |-> tr,
                handle |-> local[p]]
    /\ Leave(p)
    /\ sleep_left' = [sleep_left EXCEPT ![p] = 0]

\* A variant of line 27 with <= for <
CacheFreshInclusive(a, e) == a # None /\ e <= init_retry_interval

(***************************************************************************)
(* init_api (app.py:24-41), run by thread p on behalf of its handler       *)
(***************************************************************************)
\* line 27: api and time.time() - last_init_time < init_retry_interval
CacheFresh(a, e) == a # None /\ e < init_retry_interval

\* A variant of the handlers that go on without testing the handle
NoClientUntested(h) == FALSE

\* lines 51, 69, 84, 99: if not api
NoClient(h) == h = None

\* What a handler does with init_api's return value h.  The data handlers
\* bind it to their local `api` and test it (lines 50-52, 68-70, 83-85,
\* 98-100); health_check drops it and goes on to line 137.
ReturnToHandler(p, h) ==
    IF req[p].ep = "health"
    THEN /\ pc' = [pc EXCEPT ![p] = "health_after"]
         /\ UNCHANGED <<req, local, new_api, attempt, sleep_left, trace>> /\ sent' = NoSent
    ELSE IF NoClient(h)
    THEN Respond(p, req[p], ConnectError, trace[p])
    ELSE /\ local' = [local EXCEPT ![p] = h]
         /\ pc' = [pc EXCEPT ![p] = IF req[p].ep = "download" THEN "dl_attempt"
                                                               ELSE "call"]
         /\ UNCHANGED <<req, new_api, attempt, sleep_left, trace>> /\ sent' = NoSent

\* line 32: the clients whose login() has not returned or raised yet
LoggingIn == {h \in DOMAIN clients : clients[h] = "logging_in"}

\* A variant of lines 31-33 that binds the global when the client is
\* constructed: api = Garmin(...); api.login()
InitCheckBindsEarly(p) ==
    /\ pc[p] = "init_check"
    /\ IF CacheFresh(api, elapsed)
         THEN /\ pc' = [pc EXCEPT ![p] = "init_hit"]
              /\ UNCHANGED <<api, clients, new_api, trace, since_attempt>>
         ELSE /\ clients' = Append(clients, "logging_in")
              /\ api' = Len(clients) + 1
              /\ since_attempt' = IF api = None THEN 0 ELSE since_attempt
              /\ new_api' = [new_api EXCEPT ![p] = Len(clients) + 1]
              /\ trace' = [trace EXCEPT ![p] =
                              Append(@, LoginEvent(Len(clients) + 1, LoggingIn))]
              /\ pc' = [pc EXCEPT ![p] = "login_wait"]
    /\ sent' = NoSent
    /\ UNCHANGED <<elapsed, req, local, attempt, sleep_left, started>>

\* line 27; when the cache does not serve, lines 31-32: new_api = Garmin(...)
\* is constructed and new_api.login() is called
InitCheck(p) ==
    /\ pc[p] = "init_check"
    /\ IF CacheFresh(api, elapsed)
         THEN /\ pc' = [pc EXCEPT ![p] = "init_hit"]
              /\ UNCHANGED <<clients, new_api, trace, since_attempt>>
         ELSE /\ clients' = Append(clients, "logging_in")
              /\ since_attempt' = IF api = None THEN 0 ELSE since_attempt
              /\ new_api' = [new_api EXCEPT ![p] = Len(clients) + 1]
              /\ trace' = [trace EXCEPT ![p] =
                              Append(@, LoginEvent(Len(clients) + 1, LoggingIn))]
              /\ pc' = [pc EXCEPT ![p] = "login_wait"]
    /\ sent' = NoSent
    /\ UNCHANGED <<api, elapsed, req, local, attempt, sleep_left, started>>

\* line 28: return api
InitHit(p) ==
    /\ pc[p] = "init_hit"
    /\ ReturnToHandler(p, api)
    /\ UNCHANGED <<api, elapsed, since_attempt, clients, started>>

\* line 32 returns; line 33: api = new_api
LoginSucceeds(p) ==
    /\ pc[p] = "login_wait"
    /\ clients' = [clients EXCEPT ![new_api[p]] = "logged_in"]
    /\ api' = new_api[p]
    /\ pc' = [pc EXCEPT ![p] = "init_stamp"]
    /\ sent' = NoSent
    /\ since_attempt' = init_retry_interval
    /\ UNCHANGED <<elapsed, req, local, new_api, attempt, sleep_left,
                   trace, started>>

\* A variant of lines 31-33 that binds the global before login() has returned:
\* api = Garmin(...); api.login()
LoginFailsKeepsClient(p) ==
    /\ pc[p] = "login_wait"
    /\ clients' = [clients EXCEPT ![new_api[p]] = "failed"]
    /\ api' = new_api[p]
    /\ ReturnToHandler(p, new_api[p])
    /\ UNCHANGED <<elapsed, since_attempt, started>>

\* A variant of lines 37-41 that forgets the session when a login fails
LoginFailsDropsSession(p) ==
    /\ pc[p] = "login_wait"
    /\ clients' = [clients EXCEPT ![new_api[p]] = "failed"]
    /\ api' = None
    /\ ReturnToHandler(p, None)
    /\ UNCHANGED <<elapsed, since_attempt, started>>

\* line 31 or 32 raises; lines 37-41: except Exception: log; return api
LoginFails(p) ==
    /\ pc[p] = "login_wait"
    /\ clients' = [clients EXCEPT ![new_api[p]] = "failed"]
    /\ ReturnToHandler(p, api)
    /\ UNCHANGED <<api, elapsed, since_attempt, started>>

\* line 34: last_init_time = time.time()
InitStamp(p) ==
    /\ pc[p] = "init_stamp"
    /\ elapsed' = 0
    /\ pc' = [pc EXCEPT ![p] = "init_ret"]
    /\ sent' = NoSent
    /\ UNCHANGED <<api, since_attempt, clients, req, local, new_api, attempt,
                   sleep_left, trace, started>>

\* line 36: return api
InitReturn(p) ==
    /\ pc[p] = "init_ret"
    /\ ReturnToHandler(p, api)
    /\ UNCHANGED <<api, elapsed, since_attempt, clients, started>>

\* A variant of line 47 that tests `is None` only
MissingParamNoneOnly(d) == d = NoParam

(***************************************************************************)
(* The request handlers                                                    *)
(***************************************************************************)
\* line 47: not stats_date
MissingParam(d) == d = NoParam \/ d = ""

\* GET /stats, lines 46-50
StatsBegin(p, date) ==
    /\ CanStart(p)
    /\ IF MissingParam(date)
         THEN /\ Respond(p, [ep |-> "stats", arg |-> date], MissingDate, <<>>)
              /\ started' = started + 1
         ELSE Enter(p, [ep |-> "stats", arg |-> date], "init_check")
    /\ UNCHANGED <<api, elapsed, since_attempt, clients>>

\* GET /activities (lines 65-68), /activities/<id> (line 83),
\* /activities/<id>/download (line 98): straight into init_api
DataBegin(p, ep, arg) ==
    /\ CanStart(p)
    /\ Enter(p, [ep |-> ep, arg |-> arg], "init_check")
    /\ UNCHANGED <<api, elapsed, since_attempt, clients>>

\* The upstream operation each data endpoint calls (lines 56, 74, 89, 109)
UpstreamOp(ep) == CASE ep = "stats" -> "get_stats"
                    [] ep = "activities" -> "get_activities"
                    [] ep = "details" -> "get_activity"
                    [] OTHER -> "download_activity"

\* A variant of lines 58-60 that answers with a fixed text for str(e)
DataCallGeneric(p, ok, v, msg) ==
    /\ pc[p] = "call"
    /\ LET op == UpstreamOp(req[p].ep)
           obj == UpstreamObj(op, req[p].arg, v)
       IN  IF ok
           THEN Respond(p, req[p], jsonify(obj),
                        Append(trace[p], CallEvent(local[p], op, req[p].arg,
                                                   "ok", NoData, obj)))
           ELSE Respond(p, req[p], jsonify_error("Internal Server Error", 500),
                        Append(trace[p], CallEvent(local[p], op, req[p].arg,
                                                   "raise", msg, NoObj)))
    /\ UNCHANGED <<api, elapsed, since_attempt, clients, started>>

\* lines 56-60, 74-78, 89-93: the one upstream call and its mapping.
\* The upstream answers with an object for the argument it was given (version
\* v of it), or raises with message msg.
DataCall(p, ok, v, msg) ==
    /\ pc[p] = "call"
    /\ LET op == UpstreamOp(req[p].ep)
           obj == UpstreamObj(op, req[p].arg, v)
       IN  IF ok
           THEN Respond(p, req[p], jsonify(obj),
                        Append(trace[p], CallEvent(local[p], op, req[p].arg,
                                                   "ok", NoData, obj)))
           ELSE Respond(p, req[p], jsonify_error(msg, 500),
                        Append(trace[p], CallEvent(local[p], op, req[p].arg,
                                                   "raise", msg, NoObj)))
    /\ UNCHANGED <<api, elapsed, since_attempt, clients, started>>

\* lines 116-124: what the download handler answers once the loop is over
DownloadResponse(file_data, id, fmt) ==
    IF file_data = NoData THEN DownloadExhausted
                          ELSE send_file(file_data, id, fmt)

\* lines 108-110: the upstream download returns (bytes, or None): break
DownloadReturns(p, data) ==
    /\ pc[p] = "dl_attempt"
    /\ Respond(p, req[p], DownloadResponse(data, req[p].arg, DefaultFormat),
               Append(trace[p], CallEvent(local[p], "download_activity", req[p].arg,
                                          IF data = NoData THEN "none" ELSE "ok",
                                          data, NoObj)))
    /\ UNCHANGED <<api, elapsed, since_attempt, clients, started>>

\* A variant of line 109 that calls the client of the global session, not the
\* handle the handler acquired
DownloadRaisesGlobal(p, msg) ==
    /\ pc[p] = "dl_attempt"
    /\ trace' = [trace EXCEPT ![p] = Append(Append(@,
                    CallEvent(api, "download_activity", req[p].arg,
                              "raise", msg, NoObj)),
                    SleepEvent(Pow2(attempt[p])))]
    /\ sleep_left' = [sleep_left EXCEPT ![p] = Pow2(attempt[p])]
    /\ pc' = [pc EXCEPT ![p] = "sleeping"]
    /\ UNCHANGED <<api, elapsed, since_attempt, clients, req, local, new_api,
                   attempt, started>> /\ sent' = NoSent

\* lines 109, 111-114: the upstream download raises; time.sleep(2 ** attempt) begins
DownloadRaises(p, msg) ==
    /\ pc[p] = "dl_attempt"
    /\ trace' = [trace EXCEPT ![p] = Append(Append(@,
                    CallEvent(local[p], "download_activity", req[p].arg,
                              "raise", msg, NoObj)),
                    SleepEvent(Pow2(attempt[p])))]
    /\ sleep_left' = [sleep_left EXCEPT ![p] = Pow2(attempt[p])]
    /\ pc' = [pc EXCEPT ![p] = "sleeping"]
    /\ UNCHANGED <<api, elapsed, since_attempt, clients, req, local, new_api,
                   attempt, started>> /\ sent' = NoSent

\* A variant of line 107 that goes once more around the loop
MoreAttemptsOneMore(n) == n <= MaxAttempts

\* line 107: for attempt in range(3) has a next value
MoreAttempts(n) == n < MaxAttempts

\* d seconds pass for every clock
Elapse(d) ==
    /\ elapsed' = Min(elapsed + d, init_retry_interval)
    /\ since_attempt' = Min(since_attempt + d, init_retry_interval)
    /\ sleep_left' = [q \in Procs |-> Max(sleep_left[q] - d, 0)]

\* line 114 returns: what was left of the sleep has passed; line 107 takes the
\* next attempt, or the loop is over with file_data = None (lines 116-117)
SleepEnd(p) ==
    /\ pc[p] = "sleeping"
    /\ Elapse(sleep_left[p])
    /\ IF MoreAttempts(attempt[p] + 1)
         THEN /\ attempt' = [attempt EXCEPT ![p] = @ + 1]
              /\ pc' = [pc EXCEPT ![p] = "dl_attempt"]
              /\ sent' = NoSent
              /\ UNCHANGED <<req, local, new_api, trace>>
         ELSE /\ sent' = [proc |-> p, req |-> req[p],
                          resp |-> DownloadResponse(NoData, req[p].arg, DefaultFormat),
                          trace |-> trace[p], handle |-> local[p]]
              /\ Leave(p)
    /\ UNCHANGED <<api, clients, started>>

\* A variant of line 132 that asks for a fresh session, as init_api does
HealthBeginFresh(p) ==
    /\ CanStart(p)
    /\ IF CacheFresh(api, elapsed)
         THEN /\ Respond(p, [ep |-> "health", arg |-> ""],
                         jsonify_health("healthy", "authenticated", 200), <<>>)
              /\ started' = started + 1
         ELSE Enter(p, [ep |-> "health", arg |-> ""], "init_check")
    /\ UNCHANGED <<api, elapsed, since_attempt, clients>>

\* GET /health, lines 132-136
HealthBegin(p) ==
    /\ CanStart(p)
    /\ IF api # None
         THEN /\ Respond(p, [ep |-> "health", arg |-> ""],
                         jsonify_health("healthy", "authenticated", 200), <<>>)
              /\ started' = started + 1
         ELSE Enter(p, [ep |-> "health", arg |-> ""], "init_check")
    /\ UNCHANGED <<api, elapsed, since_attempt, clients>>

\* A variant of lines 137-139 that waits for a session instead of answering 503
HealthAfterWaits(p) ==
    /\ pc[p] = "health_after"
    /\ api # None
    /\ Respond(p, req[p], jsonify_health("healthy", "reauthenticated", 200), trace[p])
    /\ UNCHANGED <<api, elapsed, since_attempt, clients, started>>

\* A variant of lines 136-139 that answers by the outcome of the probe's own
\* login call rather than by the global session
HealthAfterOwnLogin(p) ==
    /\ pc[p] = "health_after"
    /\ Respond(p, req[p],
               IF new_api[p] # None /\ clients[new_api[p]] = "logged_in"
               THEN jsonify_health("healthy", "reauthenticated", 200)
               ELSE jsonify_health("unhealthy", "unauthenticated", 503),
               trace[p])
    /\ UNCHANGED <<api, elapsed, since_attempt, clients, started>>

\* lines 137-139
HealthAfter(p) ==
    /\ pc[p] = "health_after"
    /\ Respond(p, req[p],
               IF api # None
               THEN jsonify_health("healthy", "reauthenticated", 200)
               ELSE jsonify_health("unhealthy", "unauthenticated", 503),
               trace[p])
    /\ UNCHANGED <<api, elapsed, since_attempt, clients, started>>

\* Time passes
Tick(d) ==
    /\ Elapse(d)
    /\ sent' = NoSent
    /\ UNCHANGED <<api, clients, pc, req, local, new_api, attempt, trace, started>>

(***************************************************************************)
(* Specifications                                                          *)
(***************************************************************************)
Step(p) ==
    \/ \E date \in DateInputs : StatsBegin(p, date)
    \/ DataBegin(p, "activities", "0,10")
    \/ \E id \in ActivityIds : DataBegin(p, "details", id)
    \/ \E id \in DownloadIds : DataBegin(p, "download", id)
    \/ HealthBegin(p)
    \/ InitCheck(p)
    \/ InitHit(p)
    \/ LoginSucceeds(p)
    \/ LoginFails(p)
    \/ InitStamp(p)
    \/ InitReturn(p)
    \/ \E v \in Versions : DataCall(p, TRUE, v, "")
    \/ \E msg \in Messages : DataCall(p, FALSE, 0, msg)
    \/ \E data \in FileContents \cup {NoData} : DownloadReturns(p, data)
    \/ DownloadRaises(p, "timeout")
    \/ SleepEnd(p)
    \/ HealthAfter(p)

\* requests dispatched concurrently to the threads
Next == (\E p \in Procs : Step(p)) \/ (\E d \in TickSteps : Tick(d))
Spec == Init /\ [][Next]_vars

\* requests served one after another
NextSeq == (\E p \in SeqProcs : Step(p)) \/ (\E d \in TickSteps : Tick(d))
SpecSeq == Init /\ [][NextSeq]_vars

\* The steps of the request thread p has in hand: every one is a statement of
\* the handler or of init_api, an upstream call returning or raising, or a
\* sleep ending.
Work(p) ==
    \/ InitCheck(p)
    \/ InitHit(p)
    \/ LoginSucceeds(p)
    \/ LoginFails(p)
    \/ InitStamp(p)
    \/ InitReturn(p)
    \/ \E v \in Versions : DataCall(p, TRUE, v, "")
    \/ \E msg \in Messages : DataCall(p, FALSE, 0, msg)
    \/ \E data \in FileContents \cup {NoData} : DownloadReturns(p, data)
    \/ DownloadRaises(p, "timeout")
    \/ SleepEnd(p)
    \/ HealthAfter(p)

\* Every thread with a request in hand is scheduled again, every upstream call
\* it waits for returns or raises, and every sleep ends.
Fairness == \A p \in Procs : WF_vars(Work(p))
FairSpec == Init /\ [][Next]_vars /\ Fairness
FairSpecSeq == Init /\ [][NextSeq]_vars /\ Fairness

(***************************************************************************)
(* Properties                                                              *)
(***************************************************************************)
DataEndpoints == {"stats", "activities", "details", "download"}
SingleCallEndpoints == {"stats", "activities", "details"}

LoginsOf(tr) == SelectSeq(tr, IsLogin)
CallsOf(tr) == SelectSeq(tr, IsCall)
SleepsOf(tr) == SelectSeq(tr, IsSleep)
IsUpstream(e) == e.kind # "login"
Outs(tr) == [i \in 1 .. Len(CallsOf(tr)) |-> CallsOf(tr)[i].out]
Waits(tr) == [i \in 1 .. Len(SleepsOf(tr)) |-> SleepsOf(tr)[i].w]
\* the kinds of what the handler did once init_api had returned
AfterAcquire(tr) == [i \in 1 .. Len(SelectSeq(tr, IsUpstream)) |->
                        SelectSeq(tr, IsUpstream)[i].kind]
Last(tr) == tr[Len(tr)]
LoginFailedIn(tr) ==
    \E i \in 1 .. Len(tr) : tr[i].kind = "login" /\ clients[tr[i].h] = "failed"

\* the step in which thread p evaluates line 27
CheckStep(p) == pc[p] = "init_check" /\ pc'[p] # "init_check"
\* the step in which thread p returns from line 28
HitReturnStep(p) == pc[p] = "init_hit" /\ pc'[p] # "init_hit"
\* the step in which thread p's login raises
FailStep(p) ==
    /\ pc[p] = "login_wait" /\ pc'[p] # "login_wait"
    /\ clients'[new_api[p]] = "failed"

----------------------------------------------------------------------------
\* C1 (requests served one after another).  While a handle is cached and fewer
\* than 60 s have passed since its login was stamped, no login call has been
\* made since that login: the cached client is the last one constructed.  An
\* acquisition that evaluates line 27 in that interval goes to line 28, makes
\* no login call and returns the cached handle; an acquisition that evaluates
\* it when no handle is cached or 60 s or more have passed makes a login call.
C1_SessionReuse ==
    /\ [](api # None /\ elapsed < 60 =>
              Len(clients) = api /\ clients[api] = "logged_in")
    /\ [][\A p \in Procs : CheckStep(p) =>
              IF api # None /\ elapsed < 60
              THEN pc'[p] = "init_hit" /\ clients' = clients
              ELSE pc'[p] = "login_wait" /\ Len(clients') = Len(clients) + 1]_vars
    /\ [][\A p \in Procs : HitReturnStep(p) /\ req[p].ep \in DataEndpoints =>
              local'[p] = api /\ api' = api /\ clients' = clients]_vars

\* the second acquisition, 59 s after the one login, is served from the cache
C1_Witness ==
    \E p \in Procs : /\ pc[p] = "init_hit"
                     /\ elapsed = 59
                     /\ started = 2
                     /\ clients = <<"logged_in">>

----------------------------------------------------------------------------
\* C2.  The step in which a login fails leaves the cached handle and the time
\* since the last stamp as they were.  A data handler then receives the cached
\* handle if there is one and goes on to its upstream call; it answers with the
\* connect error only when no handle is cached, and then no login has ever
\* succeeded.
C2_FailedLoginKeepsSession ==
    [][\A p \in Procs : FailStep(p) =>
          /\ api' = api
          /\ elapsed' = elapsed
          /\ req[p].ep \in DataEndpoints =>
                IF api # None
                THEN /\ local'[p] = api
                     /\ pc'[p] \in {"call", "dl_attempt"}
                     /\ sent' = NoSent
                ELSE /\ sent'.proc = p
                     /\ sent'.resp.error = "Failed to connect to Garmin API"
                     /\ sent'.handle = None
                     /\ \A i \in DOMAIN clients : clients[i] # "logged_in"]_vars

\* a request whose own login failed goes on with the handle of an earlier login
C2_Witness ==
    \E p \in Procs : /\ pc[p] \in {"call", "dl_attempt"}
                     /\ LoginFailedIn(trace[p])
                     /\ local[p] # None
                     /\ local[p] = api

----------------------------------------------------------------------------
\* C3.  A response to a data endpoint whose request made a login call that
\* failed, sent while no handle is cached, is the 500 "Failed to connect to
\* Garmin API" error; the request made no upstream data call and the response
\* carries no payload.
C3_AuthFailure ==
    (/\ sent.req.ep \in DataEndpoints
     /\ LoginFailedIn(sent.trace)
     /\ api = None)
    => /\ sent.resp.code = 500
       /\ sent.resp.error = "Failed to connect to Garmin API"
       /\ CallsOf(sent.trace) = <<>>
       /\ sent.resp.obj = NoObj
       /\ sent.resp.data = NoData

C3_Witness ==
    /\ sent.req.ep = "download"
    /\ LoginFailedIn(sent.trace)
    /\ api = None
    /\ sent.resp.code = 500

----------------------------------------------------------------------------
\* C4.  A response to /stats whose date parameter is absent or empty is the 400
\* error; the request made no login call and no get_stats call, and the step
\* that sends it leaves the cached handle, the time since the last stamp and
\* the set of clients as they were.
C4_MissingDate ==
    /\ []((sent.req.ep = "stats" /\ sent.req.arg \in {NoParam, ""}) =>
              /\ sent.resp.code = 400
              /\ sent.resp.error =
                   "A 'date' query parameter is required in YYYY-MM-DD format."
              /\ sent.resp.obj = NoObj
              /\ sent.trace = <<>>)
    /\ [][(sent'.req.ep = "stats" /\ sent'.req.arg \in {NoParam, ""}) =>
              api' = api /\ elapsed' = elapsed /\ clients' = clients]_vars

\* an empty date, with a session cached
C4_Witness ==
    /\ sent.req = [ep |-> "stats", arg |-> ""]
    /\ sent.resp.code = 400
    /\ api # None

----------------------------------------------------------------------------
\* C5.  In a download request an upstream download that returns data is the
\* last thing the request does (no further call, no further sleep) and the
\* response is 200 with exactly that data; when the upstream calls end raise,
\* raise, data, there are three calls, the sleeps are 1 s then 2 s, each between
\* two calls, and the response is 200 with the third call's data.
C5_DownloadSuccess ==
    sent.req.ep = "download" =>
        /\ \A i \in 1 .. Len(sent.trace) :
              (sent.trace[i].kind = "call" /\ sent.trace[i].out = "ok") =>
                  /\ i = Len(sent.trace)
                  /\ sent.resp.code = 200
                  /\ sent.resp.mimetype = "application/octet-stream"
                  /\ sent.resp.data = sent.trace[i].data
                  /\ sent.resp.error = ""
        /\ Outs(sent.trace) = <<"raise", "raise", "ok">> =>
              /\ Len(CallsOf(sent.trace)) = 3
              /\ Waits(sent.trace) = <<1, 2>>
              /\ AfterAcquire(sent.trace) = <<"call", "sleep", "call", "sleep", "call">>
              /\ sent.resp.code = 200
              /\ sent.resp.data = Last(sent.trace).data

C5_Witness ==
    /\ sent.req.ep = "download"
    /\ Outs(sent.trace) = <<"raise", "raise", "ok">>
    /\ sent.resp.code = 200
    /\ sent.resp.data = "FITDATA"

----------------------------------------------------------------------------
\* C6.  No request ever makes more than 3 upstream download calls; when three
\* calls of a download request have raised, the response is the 500 "Activity
\* download failed after 3 attempts" error without payload, and that error is
\* not the connect error.
C6_DownloadExhausted ==
    /\ \A p \in Procs : Len(CallsOf(trace[p])) <= 3
    /\ Len(CallsOf(sent.trace)) <= 3
    /\ (sent.req.ep = "download" /\ Outs(sent.trace) = <<"raise", "raise", "raise">>) =>
          /\ sent.resp.code = 500
          /\ sent.resp.error = "Activity download failed after 3 attempts"
          /\ sent.resp.data = NoData
          /\ sent.resp.obj = NoObj
          /\ sent.resp # ConnectError
          /\ sent.resp.error # ConnectError.error

C6_Witness ==
    /\ sent.req.ep = "download"
    /\ Outs(sent.trace) = <<"raise", "raise", "raise">>
    /\ sent.resp.code = 500

----------------------------------------------------------------------------
\* C7 (requests served one after another).  A /health request that arrives
\* while a handle is cached, whatever its age, is answered at once; one that
\* arrives while none is cached is not.  A /health response sent without a
\* login call is 200 healthy/authenticated; otherwise the request made exactly
\* one login call and nothing else, and the response is 200
\* healthy/reauthenticated if that login succeeded and 503
\* unhealthy/unauthenticated if it failed.
C7_HealthProbe ==
    /\ [](sent.req.ep = "health" =>
            IF sent.trace = <<>>
            THEN /\ api # None
                 /\ sent.resp.code = 200
                 /\ sent.resp.status = "healthy"
                 /\ sent.resp.auth_status = "authenticated"
            ELSE /\ Len(sent.trace) = 1
                 /\ sent.trace[1].kind = "login"
                 /\ clients[sent.trace[1].h] \in {"logged_in", "failed"}
                 /\ clients[sent.trace[1].h] = "logged_in" =>
                       /\ sent.resp.code = 200
                       /\ sent.resp.status = "healthy"
                       /\ sent.resp.auth_status = "reauthenticated"
                 /\ clients[sent.trace[1].h] = "failed" =>
                       /\ sent.resp.code = 503
                       /\ sent.resp.status = "unhealthy"
                       /\ sent.resp.auth_status = "unauthenticated")
    /\ [][\A p \in Procs :
            (/\ pc[p] = "idle"
             /\ started' = started + 1
             /\ \/ req'[p].ep = "health"
                \/ sent'.proc = p /\ sent'.req.ep = "health")
            => IF api # None
               THEN sent'.req.ep = "health" /\ sent'.trace = <<>> /\ clients' = clients
               ELSE pc'[p] = "init_check" /\ sent' = NoSent]_vars

\* a probe answered from a handle that is older than the interval
C7_Witness ==
    /\ sent.req.ep = "health"
    /\ sent.resp.auth_status = "authenticated"
    /\ elapsed = 60

----------------------------------------------------------------------------
\* C8.  A request to /stats, /activities or /activities/{id} that got a handle
\* makes exactly one upstream data call, with that handle, as the last thing it
\* does: no sleep, at most one login and that before the call; if the call
\* raises, the response is 500 with the message the upstream raised.
C8_NoRetry ==
    (sent.req.ep \in SingleCallEndpoints /\ sent.handle # None) =>
        /\ Len(CallsOf(sent.trace)) = 1
        /\ SleepsOf(sent.trace) = <<>>
        /\ Len(LoginsOf(sent.trace)) <= 1
        /\ Last(sent.trace).kind = "call"
        /\ Last(sent.trace).h = sent.handle
        /\ Last(sent.trace).out = "raise" =>
              /\ sent.resp.code = 500
              /\ sent.resp.error = Last(sent.trace).data
              /\ sent.resp.obj = NoObj

C8_Witness ==
    /\ sent.req.ep = "stats"
    /\ sent.handle # None
    /\ Last(sent.trace).out = "raise"
    /\ sent.resp.error = "403 forbidden"

----------------------------------------------------------------------------
\* C9.  Two requests may both be inside a login call at once.  The cached
\* handle is always a client whose login succeeded; and when two requests in
\* hand made their login calls at the same time, with no other login call in
\* progress or made since, then once both calls are over and at least one of
\* them succeeded, the cached handle is the client of one that succeeded.
LoginOver(p) ==
    /\ LoginsOf(trace[p]) # <<>>
    /\ clients[LoginsOf(trace[p])[1].h] # "logging_in"
LoginHandle(p) == LoginsOf(trace[p])[1].h

\* p's login call began first and q's began while it was still in progress,
\* and these are the two login calls made last
Racing(p, q) ==
    /\ p # q
    /\ LoginOver(p)
    /\ LoginOver(q)
    /\ LoginHandle(p) = Len(clients) - 1
    /\ LoginHandle(q) = Len(clients)
    /\ LoginsOf(trace[p])[1].pending = {}
    /\ LoginsOf(trace[q])[1].pending = {LoginHandle(p)}

C9_RacingLogins ==
    /\ api # None => clients[api] = "logged_in"
    /\ \A p, q \in Procs :
          Racing(p, q) =>
              LET won == {h \in {LoginHandle(p), LoginHandle(q)} :
                              clients[h] = "logged_in"}
              IN  won # {} => api \in won

C9_Witness ==
    \E p, q \in Procs :
        /\ Racing(p, q)
        /\ clients[LoginHandle(p)] = "logged_in"
        /\ clients[LoginHandle(q)] = "logged_in"
        /\ api = LoginHandle(p)

----------------------------------------------------------------------------
\* C10.  A 200 response to /activities/{id} carries exactly the object that the
\* request's one get_activity call returned, and that call was made with the
\* request's identifier.
C10_PassThrough ==
    (sent.req.ep = "details" /\ sent.resp.code = 200) =>
        /\ Last(sent.trace).kind = "call"
        /\ Last(sent.trace).op = "get_activity"
        /\ Last(sent.trace).arg = sent.req.arg
        /\ Last(sent.trace).out = "ok"
        /\ sent.resp.obj = Last(sent.trace).obj
        /\ sent.resp.obj.key = sent.req.arg
        /\ sent.resp.mimetype = "application/json"
        /\ sent.resp.error = ""

C10_Witness ==
    /\ sent.req = [ep |-> "details", arg |-> "a2"]
    /\ sent.resp.code = 200
    /\ sent.resp.obj = UpstreamObj("get_activity", "a2", 2)

----------------------------------------------------------------------------
\* C11.  In a download request every sleep is followed by a further upstream
\* download call: the request's history never ends with a sleep when the
\* response is sent.
C11_WaitsBetweenAttempts ==
    sent.req.ep = "download" =>
        \A i \in 1 .. Len(sent.trace) :
            sent.trace[i].kind = "sleep" =>
                /\ i < Len(sent.trace)
                /\ sent.trace[i + 1].kind = "call"

----------------------------------------------------------------------------
\* C12.  An acquisition that finds no handle cached makes a login call only if
\* no login call was made within the last init_retry_interval seconds: while
\* fewer seconds than that have passed since the last login call, the step
\* that evaluates line 27 constructs no client and calls no login.
C12_LoginThrottled ==
    [][\A p \in Procs :
          (CheckStep(p) /\ api = None /\ since_attempt < init_retry_interval)
              => clients' = clients]_vars

----------------------------------------------------------------------------
\* C13.  The "Activity download failed after 3 attempts" error is sent only by
\* a request that made exactly three upstream download calls, each of which
\* raised; in particular not after a call that returned without data.
C13_ExhaustedOnlyAfterThree ==
    sent.resp.error = "Activity download failed after 3 attempts" =>
        /\ Len(CallsOf(sent.trace)) = 3
        /\ Outs(sent.trace) = <<"raise", "raise", "raise">>

----------------------------------------------------------------------------
\* C14.  Once a login has succeeded a handle is cached in every later state: no
\* step resets a cached handle to None.  From then on every acquisition hands
\* its data handler a handle, no response is the connect error, and every
\* /health response is 200, also when the request's own login failed.
LoginSucceeded == \E h \in DOMAIN clients : clients[h] = "logged_in"
\* the step in which init_api returns to the handler of thread p
AcquireReturnStep(p) ==
    /\ pc[p] \in {"init_hit", "login_wait", "init_ret"}
    /\ pc'[p] \in {"call", "dl_attempt", "health_after", "idle"}

C14_SessionNeverDestroyed ==
    /\ [](LoginSucceeded => api # None)
    /\ [][api # None => api' # None]_vars
    /\ [][\A p \in Procs :
            (LoginSucceeded /\ AcquireReturnStep(p) /\ req[p].ep \in DataEndpoints)
                => /\ local'[p] # None
                   /\ pc'[p] \in {"call", "dl_attempt"}
                   /\ sent' = NoSent]_vars
    /\ [](LoginSucceeded =>
            /\ sent.resp.error # "Failed to connect to Garmin API"
            /\ sent.req.ep = "health" => /\ sent.resp.code = 200
                                         /\ sent.resp.status = "healthy")

\* a session is cached, a later login failed, and the request it failed in was
\* served with the cached handle
C14_Witness ==
    /\ api # None
    /\ sent.req.ep \in DataEndpoints
    /\ LoginFailedIn(sent.trace)
    /\ sent.handle = api
    /\ sent.resp.code = 200

----------------------------------------------------------------------------
\* C15.  In every reachable state the cached handle is None or a client whose
\* login has returned successfully, and so is every handle a handler holds,
\* every handle an upstream data call was made with and the handle of every
\* request answered: never a client still logging in or one whose login failed.
LoggedIn(h) == h \in DOMAIN clients /\ clients[h] = "logged_in"
CallHandles(tr) == {CallsOf(tr)[i].h : i \in 1 .. Len(CallsOf(tr))}

C15_OnlyLoggedInClients ==
    /\ api # None => LoggedIn(api)
    /\ \A p \in Procs :
          /\ local[p] # None => LoggedIn(local[p])
          /\ \A h \in CallHandles(trace[p]) : LoggedIn(h)
    /\ sent.handle # None => LoggedIn(sent.handle)
    /\ \A h \in CallHandles(sent.trace) : LoggedIn(h)

\* a handler holds the cached handle while another request's client is
\* logging in
C15_Witness ==
    /\ api # None
    /\ \E h \in DOMAIN clients : clients[h] = "logging_in"
    /\ \E p \in Procs : local[p] = api

----------------------------------------------------------------------------
\* C16.  A data request acquires its handle once, before anything else: while
\* a thread is inside init_api its request has made no upstream data call and
\* no sleep, a request makes at most one login call and that is the first
\* thing it does, and every upstream data call of a request, in flight or
\* answered, is made with the one handle init_api returned to it, whatever
\* the cached handle or the age of the session is by then.
InInitApi(p) == pc[p] \in {"init_check", "init_hit", "login_wait", "init_stamp", "init_ret"}
OneAcquisition(tr, h) ==
    /\ Len(LoginsOf(tr)) <= 1
    /\ \A i \in 1 .. Len(tr) : tr[i].kind = "login" => i = 1
    /\ \A i \in 1 .. Len(tr) : tr[i].kind = "call" => tr[i].h = h /\ h # None

C16_OneHandlePerRequest ==
    /\ \A p \in Procs :
          /\ InInitApi(p) => SelectSeq(trace[p], IsUpstream) = <<>>
          /\ req[p].ep \in DataEndpoints => OneAcquisition(trace[p], local[p])
    /\ sent.req.ep \in DataEndpoints => OneAcquisition(sent.trace, sent.handle)

\* a download whose third call was made with the handle it acquired at its
\* start, after another request had replaced the cached handle
C16_Witness ==
    /\ sent.req.ep = "download"
    /\ Outs(sent.trace) = <<"raise", "raise", "ok">>
    /\ sent.handle # None
    /\ api # sent.handle
    /\ Last(sent.trace).h = sent.handle

----------------------------------------------------------------------------
\* C17 as stated.  A /health response with auth_status "reauthenticated" comes
\* from a probe whose own login call succeeded, and a probe whose own login
\* call failed is answered 503 "unauthenticated".
C17_ProbeReportsOwnLogin ==
    sent.req.ep = "health" =>
        /\ sent.resp.auth_status = "reauthenticated" =>
              /\ LoginsOf(sent.trace) # <<>>
              /\ clients[LoginsOf(sent.trace)[1].h] = "logged_in"
        /\ LoginFailedIn(sent.trace) =>
              /\ sent.resp.code = 503
              /\ sent.resp.auth_status = "unauthenticated"

\* C17 as amended.  A /health response with auth_status "reauthenticated" is
\* sent only while a handle of a successful login is cached, the probe's own or
\* another request's; 503 "unauthenticated" is sent exactly when the probe's
\* own login call failed and no handle is cached; a probe whose own login call
\* succeeded is answered 200 "reauthenticated".
OwnLoginSucceeded(tr) ==
    \E i \in 1 .. Len(tr) : tr[i].kind = "login" /\ clients[tr[i].h] = "logged_in"

C17_ProbeReportsSession ==
    sent.req.ep = "health" =>
        /\ sent.resp.auth_status = "reauthenticated" =>
              /\ sent.resp.code = 200
              /\ api # None
              /\ clients[api] = "logged_in"
        /\ sent.resp.code = 503 <=> (LoginFailedIn(sent.trace) /\ api = None)
        /\ sent.resp.code = 503 => sent.resp.auth_status = "unauthenticated"
        /\ OwnLoginSucceeded(sent.trace) =>
              /\ sent.resp.code = 200
              /\ sent.resp.auth_status = "reauthenticated"

\* a probe whose own login failed while another request's login succeeded
C17_Witness ==
    /\ sent.req.ep = "health"
    /\ LoginFailedIn(sent.trace)
    /\ sent.resp.code = 200
    /\ sent.resp.auth_status = "reauthenticated"

----------------------------------------------------------------------------
\* C18.  When every upstream call and every sleep returns and threads keep
\* being scheduled, every request in hand is eventually answered.  A thread
\* leaves its handler only in a step that sends a response of its request, with
\* status 200, 400, 500 or 503, and a step that sends a thread's response
\* leaves that thread idle: one response per request.  The download loop never
\* reaches a fourth attempt.  After any response, also a failure, an idle
\* thread takes the next request.
Answered(p) == sent'.proc = p /\ sent'.resp.code \in {200, 400, 500, 503}

C18_RequestsComplete ==
    /\ \A p \in Procs : (pc[p] # "idle") ~> (pc[p] = "idle")
    /\ [][\A p \in Procs :
            /\ (pc[p] # "idle" /\ pc'[p] = "idle") => Answered(p)
            /\ (sent'.proc = p /\ sent' # sent) => (Answered(p) /\ pc'[p] = "idle")]_vars
    /\ [](\A p \in Procs : attempt[p] < 3 /\ Len(CallsOf(trace[p])) <= 3)
    /\ []((sent.proc # 0 /\ started < MaxRequests) =>
              /\ pc[sent.proc] = "idle"
              /\ ENABLED (\E p \in Procs : HealthBegin(p))
              /\ ENABLED (\E p \in Procs : DataBegin(p, "activities", "0,10")))

\* the first login failed, and a later request was served with a new session
C18_Witness ==
    /\ clients = <<"failed", "logged_in">>
    /\ started = 2
    /\ sent.resp.code = 200
    /\ sent.handle = 2

============================================================================
